---- MODULE Spec2Model ----
(***************************************************************************)
(* Rules engine of the AI wargame (src/ai_wargame_skeleton.py): the board, *)
(* move legality, move execution (repair, attack, self-destruct,           *)
(* relocation), the turn counter and the winner test, driven by the turns  *)
(* of the main loop.                                                       *)
(*                                                                         *)
(* A coordinate Coord(row, col) is the tuple <<row, col>>; a CoordPair is  *)
(* the record [src, dst]; a Unit is the record [player, type, health];     *)
(* Python's None in a board cell is the record None.  A Game is the record *)
(* [board, next_player, turns_played, options, attacker_has_ai,            *)
(* defender_has_ai], options being the record [max_turns].                 *)
(***************************************************************************)
EXTENDS Integers, Sequences, FiniteSets, TLC

\* Options.dim
dim == 5

\* Options.max_turns of the games explored with every input
MaxTurns == 3

\* Options.max_turns of the games explored in depth with the scenario moves
ScenarioMaxTurns == 9

\* largest magnitude of the health deltas tried on Unit.mod_health
MaxDelta == 20

\* the turn limit of the games that lead to the endgames
EndgameMaxTurns == 15

\* Options.max_turns of the games played against the computer
SearchMaxTurns == 4

\* largest --max_depth of the games played against the computer
MaxDepth == 3

\* how far ahead in the line of play a player may skip
EndgameSkip == 2

\* the turn limit of the games in which both AIs are destroyed
DrawMaxTurns == 17

\* the search is examined on boards of at most this many units
SearchMaxUnits == 7

\* ... where the side to move has at most this many candidate moves
SearchMaxMoves == 3

Attacker == "Attacker"
Defender == "Defender"

\* Player.next
Player_next(p) == IF p = Attacker THEN Defender ELSE Attacker

\* UnitType: the value of each member
UnitType == [AI |-> 0, Tech |-> 1, Virus |-> 2, Program |-> 3, Firewall |-> 4]

\* an empty board cell, and has_winner's "no winner"
None == [player |-> "None", type |-> "None", health |-> 0]

NoWinner == "None"

\* Unit.damage_table, rows and columns in the order of UnitType
damage_table ==
  << <<3, 3, 3, 3, 1>>,
     <<1, 1, 6, 1, 1>>,
     <<9, 6, 1, 6, 1>>,
     <<3, 3, 3, 3, 1>>,
     <<1, 1, 1, 1, 1>> >>

\* Unit.repair_table
repair_table ==
  << <<0, 1, 1, 0, 0>>,
     <<3, 0, 0, 3, 3>>,
     <<0, 0, 0, 0, 0>>,
     <<0, 0, 0, 0, 0>>,
     <<0, 0, 0, 0, 0>> >>

\* Unit(player, type), health 9 by default
Unit(p, t) == [player |-> p, type |-> t, health |-> 9]

\* Unit.is_alive
is_alive(u) == u.health > 0

\* Unit.mod_health without the floor at 0
Unit_mod_health_no_floor(u, health_delta) ==
  LET h == u.health + health_delta
  IN  [u EXCEPT !.health = IF h > 9 THEN 9 ELSE h]

\* Unit.mod_health: the unit after the change
Unit_mod_health(u, health_delta) ==
  LET h == u.health + health_delta
  IN  [u EXCEPT !.health = IF h < 0 THEN 0 ELSE IF h > 9 THEN 9 ELSE h]

\* Unit.damage_amount
damage_amount(u, target) ==
  LET amount == damage_table[UnitType[u.type] + 1][UnitType[target.type] + 1]
  IN  IF target.health - amount < 0 THEN target.health ELSE amount

\* Unit.repair_amount
repair_amount(u, target) ==
  LET amount == repair_table[UnitType[u.type] + 1][UnitType[target.type] + 1]
  IN  IF target.health + amount > 9 THEN 9 - target.health ELSE amount

\* Coord.iter_adjacent: up, left, down, right
iter_adjacent(c) ==
  << <<c[1] - 1, c[2]>>, <<c[1], c[2] - 1>>, <<c[1] + 1, c[2]>>, <<c[1], c[2] + 1>> >>

\* the cells of the board (CoordPair.from_dim(dim).iter_rectangle())
Cells == (0 .. dim - 1) \X (0 .. dim - 1)

\* Game.is_valid_coord
is_valid_coord(coord) ==
  ~(coord[1] < 0 \/ coord[1] >= dim \/ coord[2] < 0 \/ coord[2] >= dim)

\* Game.get
get(g, coord) == IF is_valid_coord(coord) THEN g.board[coord] ELSE None

\* Game.set
set(g, coord, unit) ==
  IF is_valid_coord(coord) THEN [g EXCEPT !.board[coord] = unit] ELSE g

\* remove_dead that sets the owner's flag when the dead unit is not an AI
remove_dead_sets_flag(g, coord) ==
  LET unit == get(g, coord)
  IN  IF unit # None /\ ~is_alive(unit)
      THEN LET g1 == set(g, coord, None)
           IN  IF unit.player = Attacker
               THEN [g1 EXCEPT !.attacker_has_ai = (unit.type # "AI")]
               ELSE [g1 EXCEPT !.defender_has_ai = (unit.type # "AI")]
      ELSE g

\* Game.remove_dead
remove_dead(g, coord) ==
  LET unit == get(g, coord)
  IN  IF unit # None /\ ~is_alive(unit)
      THEN LET g1 == set(g, coord, None)
           IN  IF unit.type = "AI"
               THEN IF unit.player = Attacker
                    THEN [g1 EXCEPT !.attacker_has_ai = FALSE]
                    ELSE [g1 EXCEPT !.defender_has_ai = FALSE]
               ELSE g1
      ELSE g

\* Game.mod_health
mod_health(g, coord, health_delta) ==
  LET target == get(g, coord)
  IN  IF target # None
      THEN remove_dead(set(g, coord, Unit_mod_health(target, health_delta)), coord)
      ELSE g

\* Game.is_in_repair
is_in_repair(g, coords) ==
  LET unit_src == get(g, coords.src)
      unit_dst == get(g, coords.dst)
  IN  /\ unit_src # None
      /\ unit_dst # None
      /\ unit_src.player = unit_dst.player
      /\ coords.src # coords.dst
      /\ repair_amount(unit_src, unit_dst) > 0

\* Game.is_in_Combat
is_in_Combat(g, coords) ==
  LET adj_coords == iter_adjacent(coords.src)
      unit_src == get(g, coords.src)
  IN  \E i \in 1 .. 4 :
        /\ get(g, adj_coords[i]) # None
        /\ get(g, adj_coords[i]).player # unit_src.player

\* is_legal_move without the combat lock
is_legal_move_no_combat_lock(g, coords) ==
  LET adj_coords == iter_adjacent(coords.src)
      coords_up_left == {adj_coords[1], adj_coords[2]}
      coords_down_right == {adj_coords[3], adj_coords[4]}
      unit_src == get(g, coords.src)
      unit_dst == get(g, coords.dst)
      restricted == {"AI", "Firewall", "Program"}
  IN  IF /\ unit_src.player = Attacker
         /\ unit_src.type \in restricted
         /\ coords.dst \notin coords_up_left
      THEN FALSE
      ELSE IF /\ unit_src.player = Defender
              /\ unit_src.type \in restricted
              /\ coords.dst \notin coords_down_right
      THEN FALSE
      ELSE IF /\ unit_dst # None
              /\ unit_src.player = unit_dst.player
              /\ ~is_in_repair(g, coords)
      THEN FALSE
      ELSE TRUE

\* Game.is_legal_move
is_legal_move(g, coords) ==
  LET no_move_combat == {"AI", "Firewall", "Program"}
      attacker_move == {"AI", "Firewall", "Program"}
      defender_move == {"AI", "Firewall", "Program"}
      adj_coords == iter_adjacent(coords.src)
      coords_up_left == {adj_coords[1], adj_coords[2]}
      coords_down_right == {adj_coords[3], adj_coords[4]}
      unit_src == get(g, coords.src)
      unit_dst == get(g, coords.dst)
  IN  IF is_in_Combat(g, coords) /\ unit_src.type \in no_move_combat /\ unit_dst = None
      THEN FALSE
      ELSE IF /\ unit_src.player = Attacker
              /\ unit_src.type \in attacker_move
              /\ coords.dst \notin coords_up_left
      THEN FALSE
      ELSE IF /\ unit_src.player = Defender
              /\ unit_src.type \in defender_move
              /\ coords.dst \notin coords_down_right
      THEN FALSE
      ELSE IF /\ unit_dst # None
              /\ unit_src.player = unit_dst.player
              /\ ~is_in_repair(g, coords)
      THEN FALSE
      ELSE TRUE

\* is_valid_move without the test that the source unit is next_player's
is_valid_move_any_owner(g, coords) ==
  IF ~is_valid_coord(coords.src) \/ ~is_valid_coord(coords.dst)
  THEN FALSE
  ELSE IF get(g, coords.src) = None
  THEN FALSE
  ELSE is_legal_move(g, coords) \/ get(g, coords.src) = get(g, coords.dst)

\* Game.is_valid_move; the last test is the dataclass equality of two units
\* (same player, type and health)
is_valid_move(g, coords) ==
  IF ~is_valid_coord(coords.src) \/ ~is_valid_coord(coords.dst)
  THEN FALSE
  ELSE IF get(g, coords.src) = None \/ get(g, coords.src).player # g.next_player
  THEN FALSE
  ELSE is_legal_move(g, coords) \/ get(g, coords.src) = get(g, coords.dst)

\* perform_attack hitting the defender first: a defender that dies deals no
\* damage back
perform_attack_defender_first(g, src, dst) ==
  LET attacker == get(g, src)
      defender == get(g, dst)
  IN  IF attacker # None /\ defender # None
      THEN LET defender1 == Unit_mod_health(defender, -damage_amount(attacker, defender))
               attacker1 == IF defender1.health <= 0
                            THEN attacker
                            ELSE Unit_mod_health(attacker, -damage_amount(defender, attacker))
               g1 == set(set(g, src, attacker1), dst, defender1)
               g2 == IF attacker1.health <= 0 THEN set(g1, src, None) ELSE g1
           IN  IF defender1.health <= 0 THEN set(g2, dst, None) ELSE g2
      ELSE g

\* perform_attack without the removal of the units brought to health 0
perform_attack_keeps_dead(g, src, dst) ==
  LET attacker == get(g, src)
      defender == get(g, dst)
  IN  IF attacker # None /\ defender # None
      THEN set(set(g, src, Unit_mod_health(attacker, -damage_amount(defender, attacker))),
               dst, Unit_mod_health(defender, -damage_amount(attacker, defender)))
      ELSE g

\* Game.perform_attack
perform_attack(g, src, dst) ==
  LET attacker == get(g, src)
      defender == get(g, dst)
  IN  IF attacker # None /\ defender # None
      THEN LET damage_attacker_to_defender == damage_amount(attacker, defender)
               damage_defender_to_attacker == damage_amount(defender, attacker)
               attacker1 == Unit_mod_health(attacker, -damage_defender_to_attacker)
               defender1 == Unit_mod_health(defender, -damage_attacker_to_defender)
               g1 == set(set(g, src, attacker1), dst, defender1)
               g2 == IF attacker1.health <= 0 THEN set(g1, src, None) ELSE g1
           IN  IF defender1.health <= 0 THEN set(g2, dst, None) ELSE g2
      ELSE g

\* only the 4 orthogonal neighbours of a cell
surrounding_orthogonal(c) ==
  << <<c[1] - 1, c[2]>>, <<c[1], c[2] - 1>>, <<c[1], c[2] + 1>>, <<c[1] + 1, c[2]>> >>

\* the 8 cells around a cell, in the order of the two nested range loops of
\* the self-destruct branch
surrounding(c) ==
  << <<c[1] - 1, c[2] - 1>>, <<c[1] - 1, c[2]>>, <<c[1] - 1, c[2] + 1>>,
     <<c[1], c[2] - 1>>, <<c[1], c[2] + 1>>,
     <<c[1] + 1, c[2] - 1>>, <<c[1] + 1, c[2]>>, <<c[1] + 1, c[2] + 1>> >>

\* a statement followed by the rest of the code: F applied to the value of x,
\* which is computed once
Then(x, F(_)) == CHOOSE out \in {F(v) : v \in {x}} : TRUE

RECURSIVE splash_range(_, _, _, _)
\* the loop of the self-destruct branch over targets[lo..hi], taken as the
\* iterations of the first half followed by those of the second half: 2 damage
\* to every surrounding unit
splash_range(g, targets, lo, hi) ==
  IF lo < hi
  THEN Then(splash_range(g, targets, lo, (lo + hi) \div 2), LAMBDA first :
         splash_range(first, targets, (lo + hi) \div 2 + 1, hi))
  ELSE IF lo > hi
  THEN g
  ELSE IF get(g, targets[lo]) # None THEN mod_health(g, targets[lo], -2) ELSE g

\* the loop of the self-destruct branch over targets[i..]
splash(g, targets, i) == splash_range(g, targets, i, Len(targets))

\* the self-destruct branch and the final two set calls of perform_move
self_destruct_or_move(g, coords) ==
  LET g1 == IF coords.dst = coords.src
            THEN splash(mod_health(g, coords.dst, -9), surrounding(coords.src), 1)
            ELSE g
      g2 == set(g1, coords.dst, get(g1, coords.src))
  IN  set(g2, coords.src, None)

\* Game.perform_move: [success, result, game]
perform_move(g, coords) ==
  IF is_valid_move(g, coords)
  THEN LET unit_src == get(g, coords.src)
           unit_dst == get(g, coords.dst)
       IN  IF is_in_repair(g, coords)
           THEN LET health_amount == repair_amount(unit_src, unit_dst)
                IN  IF health_amount = 0 \/ unit_dst.health = 9
                    THEN [success |-> FALSE, result |-> "", game |-> g]
                    ELSE [success |-> TRUE, result |-> "Done\n",
                          game |-> mod_health(g, coords.dst, health_amount)]
           ELSE IF unit_src = None
           THEN [success |-> FALSE, result |-> "Invalid source unit", game |-> g]
           ELSE IF unit_dst # None /\ unit_dst.player = Player_next(unit_src.player)
           THEN [success |-> TRUE,
                 result |-> "Attacked the opponent, the health levels have been adjusted!",
                 game |-> perform_attack(g, coords.src, coords.dst)]
           ELSE [success |-> TRUE, result |-> "Done",
                 game |-> self_destruct_or_move(g, coords)]
  ELSE [success |-> FALSE, result |-> "invalid move", game |-> g]

\* next_turn that counts the turn and leaves the player to move as it is
next_turn_keeps_player(g) ==
  [g EXCEPT !.turns_played = g.turns_played + 1]

\* Game.next_turn
next_turn(g) ==
  [g EXCEPT !.next_player = Player_next(g.next_player),
            !.turns_played = g.turns_played + 1]

\* has_winner testing the AI flags before the turn cap
has_winner_flags_first(g) ==
  IF g.attacker_has_ai /\ ~g.defender_has_ai
  THEN Attacker
  ELSE IF g.turns_played >= g.options.max_turns
  THEN Defender
  ELSE IF g.defender_has_ai /\ ~g.attacker_has_ai
  THEN Defender
  ELSE NoWinner

\* Game.has_winner
has_winner(g) ==
  IF g.turns_played >= g.options.max_turns
  THEN Defender
  ELSE IF g.attacker_has_ai
  THEN IF g.defender_has_ai THEN NoWinner ELSE Attacker
  ELSE IF g.defender_has_ai
  THEN Defender
  ELSE NoWinner

\* the initial placement with the Defender's Program and the Tech of (0,1)
\* exchanged
initial_board_program_first ==
  [c \in Cells |->
     IF c = <<0, 0>> THEN Unit(Defender, "AI")
     ELSE IF c \in {<<1, 0>>, <<1, 1>>} THEN Unit(Defender, "Tech")
     ELSE IF c \in {<<2, 0>>, <<0, 2>>} THEN Unit(Defender, "Firewall")
     ELSE IF c = <<0, 1>> THEN Unit(Defender, "Program")
     ELSE IF c = <<4, 4>> THEN Unit(Attacker, "AI")
     ELSE IF c \in {<<3, 4>>, <<4, 3>>} THEN Unit(Attacker, "Virus")
     ELSE IF c \in {<<2, 4>>, <<4, 2>>} THEN Unit(Attacker, "Program")
     ELSE IF c = <<3, 3>> THEN Unit(Attacker, "Firewall")
     ELSE None]

\* Game.__post_init__: the initial placement
initial_board ==
  LET md == dim - 1
      placed == << <<0, 0>>, <<1, 0>>, <<0, 1>>, <<2, 0>>, <<0, 2>>, <<1, 1>>,
                   <<md, md>>, <<md - 1, md>>, <<md, md - 1>>, <<md - 2, md>>,
                   <<md, md - 2>>, <<md - 1, md - 1>> >>
      units == << Unit(Defender, "AI"), Unit(Defender, "Tech"), Unit(Defender, "Tech"),
                  Unit(Defender, "Firewall"), Unit(Defender, "Firewall"),
                  Unit(Defender, "Program"),
                  Unit(Attacker, "AI"), Unit(Attacker, "Virus"), Unit(Attacker, "Virus"),
                  Unit(Attacker, "Program"), Unit(Attacker, "Program"),
                  Unit(Attacker, "Firewall") >>
      \* later set calls overwrite earlier ones
      lastAt(c) == CHOOSE i \in 1 .. 12 :
                     placed[i] = c /\ \A j \in 1 .. 12 : placed[j] = c => j <= i
  IN  [c \in Cells |->
         IF \E i \in 1 .. 12 : placed[i] = c THEN units[lastAt(c)] ELSE None]

\* Options.broker when no broker is given
NoBroker == "None"

\* Game(options=Options(max_turns=n)): a newly created game; max_depth,
\* game_type and broker have the defaults of Options
new_game(n) ==
  [board |-> initial_board, next_player |-> Attacker, turns_played |-> 1,
   options |-> [max_turns |-> n, max_depth |-> 4,
                game_type |-> "AttackerVsDefender", broker |-> NoBroker],
   attacker_has_ai |-> TRUE, defender_has_ai |-> TRUE]

(***************************************************************************)
(* Parsing.  A string is a sequence of characters.                         *)
(***************************************************************************)
UpperCase ==
  << "A", "B", "C", "D", "E", "F", "G", "H", "I", "J", "K", "L", "M",
     "N", "O", "P", "Q", "R", "S", "T", "U", "V", "W", "X", "Y", "Z" >>

LowerCase ==
  << "a", "b", "c", "d", "e", "f", "g", "h", "i", "j", "k", "l", "m",
     "n", "o", "p", "q", "r", "s", "t", "u", "v", "w", "x", "y", "z" >>

\* the column digits of Coord.from_string
HexDigits ==
  << "0", "1", "2", "3", "4", "5", "6", "7", "8", "9",
     "a", "b", "c", "d", "e", "f" >>

\* the characters str.strip() removes at both ends
Whitespace == {" ", "\t", "\n"}

\* the separators from_string removes: " ,.:;-_"
Separators == {" ", ",", ".", ":", ";", "-", "_"}

\* Python's None where a Coord is expected, and where a CoordPair is
NoneCoord == << >>

NonePair == [src |-> NoneCoord, dst |-> NoneCoord]

\* str.find for a string of one character: its index from 0, or -1
find(alphabet, c) ==
  IF \E i \in 1 .. Len(alphabet) : alphabet[i] = c
  THEN (CHOOSE i \in 1 .. Len(alphabet) : alphabet[i] = c) - 1
  ELSE -1

\* str.upper and str.lower of one character
upper(c) == IF find(LowerCase, c) >= 0 THEN UpperCase[find(LowerCase, c) + 1] ELSE c

lower(c) == IF find(UpperCase, c) >= 0 THEN LowerCase[find(UpperCase, c) + 1] ELSE c

\* str.strip
strip(s) ==
  LET inner == {i \in 1 .. Len(s) : s[i] \notin Whitespace}
  IN  IF inner = {}
      THEN << >>
      ELSE LET first == CHOOSE i \in inner : \A j \in inner : i <= j
               final == CHOOSE i \in inner : \A j \in inner : j <= i
           IN  SubSeq(s, first, final)

\* the first lines of both from_string: strip, then every separator removed
cleaned(s) == SelectSeq(strip(s), LAMBDA c : c \notin Separators)

\* Coord.from_string: a Coord for every cleaned string of two characters, its
\* row and col being what find returns, -1 included; None for other lengths
Coord_from_string(s) ==
  LET t == cleaned(s)
  IN  IF Len(t) = 2
      THEN << find(UpperCase, upper(t[1])), find(HexDigits, lower(t[2])) >>
      ELSE NoneCoord

\* CoordPair.from_string
CoordPair_from_string(s) ==
  LET t == cleaned(s)
  IN  IF Len(t) = 4
      THEN [src |-> << find(UpperCase, upper(t[1])), find(HexDigits, lower(t[2])) >>,
            dst |-> << find(UpperCase, upper(t[3])), find(HexDigits, lower(t[4])) >>]
      ELSE NonePair

\* the test of the loop of Game.read_move on the line s: the line is returned
\* as a move, or "Invalid coordinates! Try again." is printed
read_move_accepts(s) ==
  /\ CoordPair_from_string(s) # NonePair
  /\ is_valid_coord(CoordPair_from_string(s).src)
  /\ is_valid_coord(CoordPair_from_string(s).dst)

(***************************************************************************)
(* The broker.  A response is what requests.get gives: raised is TRUE when *)
(* the call, or the reading of the response, raises an exception;         *)
(* otherwise it has a status code, the success field of its JSON body and  *)
(* the data field, NoData or [turn, from, to].                             *)
(***************************************************************************)
\* the data field of a response whose JSON "data" is null
NoData == [turn |-> -1, from |-> NoneCoord, to |-> NoneCoord]

\* get_move_from_broker that takes the move of a response whatever its turn
get_move_from_broker_any_turn(g, r) ==
  IF g.options.broker = NoBroker
  THEN NonePair
  ELSE IF r.raised
  THEN NonePair
  ELSE IF r.status_code = 200 /\ r.success
  THEN IF r.data # NoData
       THEN [src |-> r.data.from, dst |-> r.data.to]
       ELSE NonePair
  ELSE NonePair

\* Game.get_move_from_broker on the response r: the move, or None
get_move_from_broker(g, r) ==
  IF g.options.broker = NoBroker
  THEN NonePair
  ELSE IF r.raised
  THEN NonePair
  ELSE IF r.status_code = 200 /\ r.success
  THEN IF r.data # NoData
       THEN IF r.data.turn = g.turns_played + 1
            THEN [src |-> r.data.from, dst |-> r.data.to]
            ELSE NonePair
       ELSE NonePair
  ELSE NonePair

\* human_turn advancing the turn whether or not the move was applied
human_turn_always_advances(g, mv) ==
  LET r == perform_move(g, mv)
  IN  [r EXCEPT !.game = next_turn(r.game)]

\* one pass of the loop of Game.human_turn on the move mv read from the
\* keyboard or received from the broker: [success, result, game]
human_turn(g, mv) ==
  LET r == perform_move(g, mv)
  IN  IF r.success THEN [r EXCEPT !.game = next_turn(r.game)] ELSE r

\* computer_perform_move whose self-destruct removes the unit without
\* damaging the surrounding cells
computer_perform_move_no_splash(g, coords) ==
  IF is_valid_move(g, coords)
  THEN LET unit_src == get(g, coords.src)
           unit_dst == get(g, coords.dst)
       IN  IF is_in_repair(g, coords)
           THEN [success |-> TRUE,
                 game |-> mod_health(g, coords.dst, repair_amount(unit_src, unit_dst))]
           ELSE IF unit_dst # None /\ unit_dst.player = Player_next(unit_src.player)
           THEN [success |-> TRUE, game |-> perform_attack(g, coords.src, coords.dst)]
           ELSE IF coords.dst = coords.src
           THEN [success |-> TRUE, game |-> mod_health(g, coords.dst, -9)]
           ELSE [success |-> TRUE, game |-> self_destruct_or_move(g, coords)]
  ELSE [success |-> FALSE, game |-> g]

\* Game.computer_perform_move, the silent variant: [success, game]
computer_perform_move(g, coords) ==
  IF is_valid_move(g, coords)
  THEN LET unit_src == get(g, coords.src)
           unit_dst == get(g, coords.dst)
       IN  IF is_in_repair(g, coords)
           THEN LET health_amount == repair_amount(unit_src, unit_dst)
                IN  IF health_amount = 0 \/ unit_dst.health = 9
                    THEN [success |-> FALSE, game |-> g]
                    ELSE [success |-> TRUE,
                          game |-> mod_health(g, coords.dst, health_amount)]
           ELSE IF unit_src = None
           THEN [success |-> FALSE, game |-> g]
           ELSE IF unit_dst # None /\ unit_dst.player = Player_next(unit_src.player)
           THEN [success |-> TRUE, game |-> perform_attack(g, coords.src, coords.dst)]
           ELSE [success |-> TRUE, game |-> self_destruct_or_move(g, coords)]
  ELSE [success |-> FALSE, game |-> g]

\* CoordPair.from_dim(dim).iter_rectangle(): the cells row by row
iter_rectangle ==
  [i \in 1 .. dim * dim |-> <<(i - 1) \div dim, (i - 1) % dim>>]

\* Game.player_units: the cells holding a unit of player, in iteration order
player_units(g, player) ==
  SelectSeq(iter_rectangle,
            LAMBDA coord : get(g, coord) # None /\ get(g, coord).player = player)

\* the candidates move_candidates yields for the unit at src: the valid moves
\* to the adjacent cells in the order of iter_adjacent
adjacent_candidates(g, src) ==
  LET moves == [i \in 1 .. 4 |-> [src |-> src, dst |-> iter_adjacent(src)[i]]]
  IN  SelectSeq(moves, LAMBDA move : is_valid_move(g, move))

RECURSIVE move_candidates_no_self_destruct_from(_, _, _)
\* move_candidates without the self-destruct pair of each unit
move_candidates_no_self_destruct_from(g, units, i) ==
  IF i > Len(units)
  THEN << >>
  ELSE adjacent_candidates(g, units[i])
         \o move_candidates_no_self_destruct_from(g, units, i + 1)

RECURSIVE move_candidates_from(_, _, _)
\* the loop of move_candidates over units[i..]: for each unit its valid
\* adjacent moves, then the pair (src, src)
move_candidates_from(g, units, i) ==
  IF i > Len(units)
  THEN << >>
  ELSE adjacent_candidates(g, units[i])
         \o << [src |-> units[i], dst |-> units[i]] >>
         \o move_candidates_from(g, units, i + 1)

\* move_candidates leaving out the self-destruct pairs
move_candidates_no_self_destruct(g) ==
  move_candidates_no_self_destruct_from(g, player_units(g, g.next_player), 1)

\* Game.move_candidates, as the list the callers build from it
move_candidates(g) ==
  move_candidates_from(g, player_units(g, g.next_player), 1)

\* no move: the coords of the root node, and the move recorded when none
\* was applied
NoMove == [src |-> <<-1, -1>>, dst |-> <<-1, -1>>]

\* MAX_HEURISTIC_SCORE and MIN_HEURISTIC_SCORE
MAX_HEURISTIC_SCORE == 2000000000

MIN_HEURISTIC_SCORE == -2000000000

\* the number of units of a player and a type on the board of g
count_units(g, player, type) ==
  Cardinality({c \in Cells : g.board[c] # None /\ g.board[c].player = player
                                /\ g.board[c].type = type})

\* the counters that the loop over both players' units fills in e0, e1 and
\* e2: every Tech is counted in nbT1 and every Virus in nbV2, whoever owns it
unit_counters(g) ==
  [nbAi1 |-> count_units(g, Defender, "AI"),
   nbAi2 |-> count_units(g, Attacker, "AI"),
   nbT1 |-> count_units(g, Attacker, "Tech") + count_units(g, Defender, "Tech"),
   nbV2 |-> count_units(g, Attacker, "Virus") + count_units(g, Defender, "Virus"),
   nbP1 |-> count_units(g, Defender, "Program"),
   nbP2 |-> count_units(g, Attacker, "Program"),
   nbF1 |-> count_units(g, Defender, "Firewall"),
   nbF2 |-> count_units(g, Attacker, "Firewall"),
   nbV1 |-> 0,
   nbT2 |-> 0]

\* e0 that scores for the Defender whoever main_player is
e0_defender_view(g, main_player) ==
  LET n == unit_counters(g)
      firstPart == 3 * n.nbV1 + 3 * n.nbT1 + 3 * n.nbF1 + 3 * n.nbP1 + 9999 * n.nbAi1
      secondPart == 3 * n.nbV2 + 3 * n.nbT2 + 3 * n.nbF2 + 3 * n.nbP2 + 9999 * n.nbAi2
  IN  firstPart - secondPart

\* e0 with the AI weighted like any other unit
e0_light_ai(g, main_player) ==
  LET n == unit_counters(g)
      firstPart == 3 * n.nbV1 + 3 * n.nbT1 + 3 * n.nbF1 + 3 * n.nbP1 + 3 * n.nbAi1
      secondPart == 3 * n.nbV2 + 3 * n.nbT2 + 3 * n.nbF2 + 3 * n.nbP2 + 3 * n.nbAi2
  IN  IF main_player = Defender THEN firstPart - secondPart ELSE secondPart - firstPart

\* Game.e0
e0(g, main_player) ==
  LET n == unit_counters(g)
      firstPart == 3 * n.nbV1 + 3 * n.nbT1 + 3 * n.nbF1 + 3 * n.nbP1 + 9999 * n.nbAi1
      secondPart == 3 * n.nbV2 + 3 * n.nbT2 + 3 * n.nbF2 + 3 * n.nbP2 + 9999 * n.nbAi2
  IN  IF main_player = Defender THEN firstPart - secondPart ELSE secondPart - firstPart

\* Game.e1; both move counts are the number of candidates of the side to move
\* unless main_player's is taken from the list passed in
e1(g, main_player, moves) ==
  LET n == unit_counters(g)
      nbMoves1 == IF main_player = Defender THEN Len(moves) ELSE Len(move_candidates(g))
      nbUnits1 == Len(player_units(g, Defender))
      nbMoves2 == IF main_player = Attacker THEN Len(moves) ELSE Len(move_candidates(g))
      nbUnits2 == Len(player_units(g, Attacker))
      defenderSide == 500 * n.nbT1 + 100 * n.nbF1 + 100 * n.nbP1 + 99999 * n.nbAi1
      attackerSide == 500 * n.nbV2 + 100 * n.nbF2 + 100 * n.nbP2 + 99999 * n.nbAi2
      totalNbPieces == IF main_player = Defender
                       THEN defenderSide - attackerSide
                       ELSE attackerSide - defenderSide
  IN  totalNbPieces + nbMoves1 + nbUnits1 - nbMoves2 + nbUnits2

RECURSIVE sum_health(_, _, _)
\* the sum of the healths of the units at cells units[i..]
sum_health(g, units, i) ==
  IF i > Len(units) THEN 0 ELSE get(g, units[i]).health + sum_health(g, units, i + 1)

\* Game.e2; only main_player's healths are summed
e2(g, main_player) ==
  LET n == unit_counters(g)
      own == sum_health(g, player_units(g, main_player), 1)
      sumOfAllHealthValues1 == IF main_player = Defender THEN own ELSE 0
      sumOfAllHealthValues2 == IF main_player = Defender THEN 0 ELSE own
      defenderPart == 4 * n.nbV1 + 3 * n.nbT1 + 2 * n.nbF1 + 3 * n.nbP1 + 8000 * n.nbAi1
      attackerPart == 4 * n.nbV2 + 3 * n.nbT2 + 2 * n.nbF2 + 3 * n.nbP2 + 8000 * n.nbAi2
      firstPart == IF main_player = Defender THEN defenderPart ELSE attackerPart
      secondPart == IF main_player = Defender THEN attackerPart ELSE defenderPart
      totalHealth1 == IF main_player = Defender
                      THEN sumOfAllHealthValues1 ELSE sumOfAllHealthValues2
      totalHealth2 == IF main_player = Defender
                      THEN sumOfAllHealthValues2 ELSE sumOfAllHealthValues1
  IN  firstPart + totalHealth1 - (secondPart + totalHealth2)

(***************************************************************************)
(* The search.  Game objects are mutable and clone() copies them, so the   *)
(* tree is built over an object store: games[ref] is a Game object whose   *)
(* board field is the index in boards of the board object it refers to.    *)
(***************************************************************************)
EmptyHeap == [games |-> << >>, boards |-> << >>]

\* a new Game object holding the value g, with a board object of its own
new_object(heap, g) ==
  [games |-> Append(heap.games, [g EXCEPT !.board = Len(heap.boards) + 1]),
   boards |-> Append(heap.boards, g.board)]

\* the value of the Game object ref: its fields and the content of its board
deref(heap, ref) ==
  [heap.games[ref] EXCEPT !.board = heap.boards[heap.games[ref].board]]

\* a method of the Game object ref left it with the value g: its fields are
\* assigned and its board object is changed in place
update(heap, ref, g) ==
  LET b == heap.games[ref].board
  IN  [games |-> [heap.games EXCEPT ![ref] = [g EXCEPT !.board = b]],
       boards |-> [heap.boards EXCEPT ![b] = g.board]]

\* copy.copy alone: a new Game object that refers to the board of the old one
clone_shallow(heap, ref) ==
  [heap |-> [heap EXCEPT !.games = Append(@, heap.games[ref])],
   ref |-> Len(heap.games) + 1]

\* Game.clone: copy.copy of the Game object, then a deep copy of its board
clone(heap, ref) ==
  LET new == [heap.games[ref] EXCEPT !.board = Len(heap.boards) + 1]
  IN  [heap |-> [games |-> Append(heap.games, new),
                 boards |-> Append(heap.boards, heap.boards[heap.games[ref].board])],
       ref |-> Len(heap.games) + 1]

\* Node(value, coords_Pair, current_Depth, heuristic_score, current_player)
Node(value, coords_Pair, current_Depth, heuristic_score, current_player) ==
  [children |-> << >>, value |-> value, coords |-> coords_Pair,
   score |-> heuristic_score, currentDepth |-> current_Depth,
   currentPlayer |-> current_player]

\* the list of counters by depth that createTree passes to addNode
listNodes == << 0, 0, 0, 0 >>

\* listNodes[current_depth] += 1: the IndexError of a depth beyond the list
count_node(current_depth) ==
  IF current_depth >= Len(listNodes) THEN "IndexError" ELSE ""

RECURSIVE addNode(_, _, _, _, _, _)
RECURSIVE addNode_child(_, _, _, _, _, _)
RECURSIVE addNode_loop(_, _, _, _, _, _, _)
RECURSIVE addNode_range(_, _, _, _, _, _, _, _)
\* addNode that stops at the depth bound only and expands a node whose game
\* has a winner
addNode_past_winner(heap, root, current_depth, game_copy, main_player, heuristicFunction) ==
  IF current_depth + 1 > deref(heap, game_copy).options.max_depth - 1
  THEN [node |-> root, heap |-> heap, error |-> count_node(current_depth)]
  ELSE addNode_loop(heap, root, 1, current_depth + 1, game_copy, main_player,
                    heuristicFunction)

\* Game.addNode on the Game object game_copy (self is game_copy in every
\* call): [node, heap, error], error being "" or the exception raised.  The
\* counters total and averageNodes only feed the printed statistics and are
\* left out; of listNodes the indexing is kept.
addNode(heap, root, current_depth, game_copy, main_player, heuristicFunction) ==
  IF \/ current_depth + 1 > deref(heap, game_copy).options.max_depth - 1
     \/ has_winner(deref(heap, game_copy)) # NoWinner
  THEN [node |-> root, heap |-> heap, error |-> count_node(current_depth)]
  ELSE addNode_loop(heap, root, 1, current_depth + 1, game_copy, main_player,
                    heuristicFunction)

\* the first statements of the body of the loop of addNode for one move of
\* root.value: the clone, the move and the turn change applied to it, and the
\* node made for it
addNode_step(heap, move, currentDepth, game_copy, main_player, heuristicFunction) ==
  Then(clone(heap, game_copy), LAMBDA c :
  Then(update(c.heap, c.ref,
              computer_perform_move(deref(c.heap, c.ref), move).game),
       LAMBDA moved :
  Then(update(moved, c.ref, next_turn(deref(moved, c.ref))), LAMBDA turned :
  Then(deref(turned, c.ref), LAMBDA g :
  Then(move_candidates(g), LAMBDA candidates :
    [heap |-> turned, ref |-> c.ref,
     node |-> Node(candidates, move, currentDepth,
                   IF heuristicFunction = 1 THEN e0(g, main_player)
                   ELSE IF heuristicFunction = 2
                   THEN e1(g, main_player, candidates)
                   ELSE e2(g, main_player),
                   deref(moved, c.ref).next_player)])))))

\* the body of the loop of addNode for one move of root.value: the child
\* node with the subtree below it, and the object store
addNode_child(heap, move, currentDepth, game_copy, main_player, heuristicFunction) ==
  Then(addNode_step(heap, move, currentDepth, game_copy, main_player,
                    heuristicFunction),
       LAMBDA s :
    addNode(s.heap, s.node, currentDepth, s.ref, main_player, heuristicFunction))

\* the loop of addNode over root.value[lo..hi], taken as the iterations of
\* the first half followed by those of the second half; an exception raised
\* below a child, or by the counting of the child, ends it
addNode_range(heap, root, lo, hi, currentDepth, game_copy, main_player, heuristicFunction) ==
  IF lo < hi
  THEN
    Then(addNode_range(heap, root, lo, (lo + hi) \div 2, currentDepth,
                       game_copy, main_player, heuristicFunction),
         LAMBDA first :
      IF first.error # ""
      THEN first
      ELSE addNode_range(first.heap, first.node, (lo + hi) \div 2 + 1, hi,
                         currentDepth, game_copy, main_player,
                         heuristicFunction))
  ELSE IF lo > hi
  THEN [node |-> root, heap |-> heap, error |-> ""]
  ELSE
    Then(addNode_child(heap, root.value[lo], currentDepth, game_copy,
                       main_player, heuristicFunction),
         LAMBDA r :
      IF r.error # ""
      THEN [node |-> root, heap |-> r.heap, error |-> r.error]
      ELSE IF count_node(currentDepth - 1) # ""
      THEN [node |-> root, heap |-> r.heap, error |-> count_node(currentDepth - 1)]
      ELSE [node |-> [root EXCEPT !.children = Append(@, r.node)],
            heap |-> r.heap, error |-> ""])

\* the loop of addNode over root.value[i..]
addNode_loop(heap, root, i, currentDepth, game_copy, main_player, heuristicFunction) ==
  addNode_range(heap, root, i, Len(root.value), currentDepth, game_copy,
                main_player, heuristicFunction)

\* Game.createTree on the Game object self: [node, heap, error]
createTree(heap, self, heuristicFunction) ==
  LET g == deref(heap, self)
      root == Node(move_candidates(g), NoMove, 0, 0, Player_next(g.next_player))
  IN  addNode(heap, root, 0, self, g.next_player, heuristicFunction)

RECURSIVE minimax(_, _, _)
RECURSIVE minimax_max_loop(_, _, _)
RECURSIVE minimax_min_loop(_, _, _, _)
\* Game.minimax
minimax(node, depth, max_player) ==
  IF depth = 0 \/ node.children = << >>
  THEN node.score
  ELSE IF max_player
  THEN minimax_max_loop(node.children, 1, MIN_HEURISTIC_SCORE)
  ELSE minimax_min_loop(node.children, 1, MAX_HEURISTIC_SCORE, depth)

\* the loop of the max branch over children[i..]: the largest child.score;
\* the value of the recursive call is computed and not used
minimax_max_loop(children, i, max_eval) ==
  IF i > Len(children)
  THEN max_eval
  ELSE minimax_max_loop(children, i + 1,
                        IF children[i].score > max_eval
                        THEN children[i].score ELSE max_eval)

\* the loop of the min branch over children[i..]: a child whose own score is
\* below min_eval lowers min_eval to the value of the recursive call
minimax_min_loop(children, i, min_eval, depth) ==
  IF i > Len(children)
  THEN min_eval
  ELSE
    Then(minimax(children[i], depth - 1, TRUE), LAMBDA eval :
      minimax_min_loop(children, i + 1,
                       IF children[i].score < min_eval
                       THEN (IF eval < min_eval THEN eval ELSE min_eval)
                       ELSE min_eval,
                       depth))

\* the larger of the elements s[i..] of a non-empty list and m
max_from(s, i, m) ==
  LET rest == {s[j] : j \in i .. Len(s)}
  IN  CHOOSE v \in rest \cup {m} : \A x \in rest \cup {m} : x <= v

\* optimal_move_minimax without random.shuffle: the first child of the largest
\* value is the best_child
optimal_move_minimax_no_shuffle(root, depth) ==
  Then([i \in 1 .. Len(root.children) |->
          [value |-> minimax(root.children[i], depth, FALSE),
           child |-> root.children[i]]],
       LAMBDA all :
  Then(SelectSeq(all, LAMBDA e : e.value >= MIN_HEURISTIC_SCORE), LAMBDA kept :
  Then([i \in 1 .. Len(kept) |-> kept[i].value], LAMBDA values :
    IF values = << >>
    THEN [error |-> "ValueError", score |-> 0, moves |-> {}]
    ELSE
      Then(max_from(values, 2, values[1]), LAMBDA max_value :
      Then(CHOOSE i \in 1 .. Len(values) :
             /\ values[i] = max_value
             /\ \A j \in 1 .. i - 1 : values[j] # max_value,
           LAMBDA first :
        [error |-> "", score |-> max_value,
         moves |-> {kept[first].child.coords}])))))

\* Game.optimal_move_minimax: [error, score, moves]; max() of an empty list
\* raises ValueError, and random.shuffle makes every child of the largest
\* value a possible best_child
optimal_move_minimax(root, depth) ==
  Then([i \in 1 .. Len(root.children) |->
          [value |-> minimax(root.children[i], depth, FALSE),
           child |-> root.children[i]]],
       LAMBDA all :
  Then(SelectSeq(all, LAMBDA e : e.value >= MIN_HEURISTIC_SCORE), LAMBDA kept :
  Then([i \in 1 .. Len(kept) |-> kept[i].value], LAMBDA values :
    IF values = << >>
    THEN [error |-> "ValueError", score |-> 0, moves |-> {}]
    ELSE
      Then(max_from(values, 2, values[1]), LAMBDA max_value :
      Then({i \in 1 .. Len(values) : values[i] = max_value},
           LAMBDA max_indices :
        [error |-> "", score |-> max_value,
         moves |-> {kept[i].child.coords : i \in max_indices}])))))

\* Game.suggest_move on a Game object holding g: [error, score, moves, game],
\* game being the value of the object when suggest_move returns or raises
suggest_move(g) ==
  Then(createTree(new_object(EmptyHeap, g), 1, 1), LAMBDA tree :
    IF tree.error # ""
    THEN [error |-> tree.error, score |-> 0, moves |-> {},
          game |-> deref(tree.heap, 1)]
    ELSE
  Then(optimal_move_minimax(tree.node, 3), LAMBDA best :
    [error |-> best.error, score |-> best.score, moves |-> best.moves,
     game |-> deref(tree.heap, 1)]))

\* the coordinates a player or the broker can supply: the cells of the board
\* and one off-board coordinate beyond each of its four edges
InputCoords == Cells \cup {<<-1, 0>>, <<0, -1>>, <<dim, 0>>, <<0, dim>>}

Inputs == {[src |-> s, dst |-> d] : s \in InputCoords, d \in InputCoords}

Move(r0, c0, r1, c1) == [src |-> <<r0, c0>>, dst |-> <<r1, c1>>]

\* the moves of the games explored in depth: self-destructs around the
\* Attacker's AI and of the Defender's AI, long-range moves and attacks of
\* Virus and Tech, a repair, steps of the Attacker's AI and Firewall, a move
\* onto an identical friendly unit and a move to an off-board coordinate
ScenarioMoves ==
  { Move(3, 4, 3, 4), Move(4, 3, 4, 3), Move(3, 3, 3, 3), Move(2, 4, 2, 4),
    Move(0, 0, 0, 0), Move(1, 0, 3, 4), Move(0, 1, 3, 4), Move(3, 4, 0, 1),
    Move(3, 4, 0, 0), Move(2, 4, 4, 2), Move(0, 0, 0, 1), Move(4, 4, 3, 4),
    Move(3, 3, 2, 3), Move(0, 0, -1, 0) }

\* the line of play that leads to the endgames: the Attacker's Viruses strike
\* the two Techs and one of them settles at C0, a Program and the Firewall
\* advance, and the Defender is left with its AI, which steps to A1
EndgameLine ==
  << Move(3, 4, 0, 1), Move(1, 1, 1, 1), Move(4, 3, 1, 0), Move(1, 0, 1, 0),
     Move(2, 4, 1, 4), Move(2, 0, 2, 0), Move(4, 3, 2, 0), Move(0, 2, 0, 2),
     Move(3, 3, 2, 3), Move(0, 0, 0, 1), Move(4, 2, 3, 2) >>

\* the line of play in which both AIs are destroyed: the Attacker's Firewall
\* and a Virus destroy themselves beside their AI, the Tech of (0,1) strikes
\* that AI three times from afar and dies, the two AIs walk towards each
\* other, the Firewall of (0,2) clearing the way, and the Defender's AI
\* destroys itself beside the Attacker's; then a Program destroys itself
DrawLine ==
  << Move(3, 3, 3, 3), Move(0, 1, 4, 4), Move(3, 4, 3, 4), Move(0, 1, 4, 4),
     Move(4, 4, 3, 4), Move(0, 1, 3, 4), Move(3, 4, 3, 3), Move(0, 0, 0, 1),
     Move(3, 3, 2, 3), Move(0, 2, 0, 2), Move(2, 3, 1, 3), Move(0, 1, 0, 2),
     Move(1, 3, 0, 3), Move(0, 2, 0, 2), Move(2, 4, 2, 4) >>

\* the lines typed at the keyboard: moves of both sides in several
\* spellings, and lines that read_move refuses
TypedLines ==
  { << "D", "4", " ", "A", "1" >>, << "e", "3", "b", "0" >>,
    << " ", "D", "3", "-", "C", "3", "\n" >>, << "C", "4", ",", "B", "4" >>,
    << "E", "2", " ", "E", "1" >>, << "B", "1", " ", "B", "1" >>,
    << "b", "0", ":", "d", "4" >>, << "A", "1", " ", "E", "3" >>,
    << "C", "0", " ", "D", "0" >>, << "A", "2", "_", "A", "3" >>,
    << "A", "0", " ", "B", "1" >>, << "Z", "Z" >>, << "A", "0", " ", "B" >>,
    << "Z", "9", " ", "A", "0" >>, << "A", "g", " ", "A", "0" >>,
    << "A", "\t", "0", "B", "1" >>, << >> }

KeyboardMaxTurns == 4

\* the largest --max_depth of the games searched deep, and the number of
\* turns of them that are followed
DeepMaxDepth == 5

DeepPlies == 2

\* Options.max_turns
DefaultMaxTurns == 100

BrokerMaxTurns == 3

\* the moves the broker hands over: moves of both sides, a move that
\* perform_move refuses and a move off the board
BrokerMoves ==
  { Move(3, 4, 0, 1), Move(3, 3, 2, 3), Move(2, 4, 1, 4), Move(1, 1, 1, 1),
    Move(1, 0, 4, 3), Move(0, 2, 0, 3), Move(0, 0, 1, 1), Move(5, 0, 4, 0) }

\* the responses of the broker: a transport error, a status other than 200,
\* success false, null data, and a move tagged with a turn
BrokerResponses ==
  { [raised |-> TRUE, status_code |-> 0, success |-> FALSE, data |-> NoData],
    [raised |-> FALSE, status_code |-> 500, success |-> TRUE, data |-> NoData],
    [raised |-> FALSE, status_code |-> 200, success |-> FALSE, data |-> NoData],
    [raised |-> FALSE, status_code |-> 200, success |-> TRUE, data |-> NoData] }
  \cup { [raised |-> x.raised, status_code |-> x.status_code, success |-> x.success,
          data |-> [turn |-> t, from |-> mv.src, to |-> mv.dst]] :
            x \in { [raised |-> FALSE, status_code |-> 200, success |-> TRUE],
                    [raised |-> FALSE, status_code |-> 200, success |-> FALSE],
                    [raised |-> FALSE, status_code |-> 404, success |-> TRUE] },
            t \in 1 .. BrokerMaxTurns + 1, mv \in BrokerMoves }

\* the moves the Attacker tries against the computer: a Virus strikes a Tech
\* or the Defender's AI from afar, the Firewall and a Program advance, a Virus
\* destroys itself, and a unit of the Defender is named as the source
SearchMoves ==
  { Move(3, 4, 0, 1), Move(4, 3, 0, 0), Move(3, 3, 2, 3), Move(2, 4, 1, 4),
    Move(4, 3, 4, 3), Move(0, 0, 0, 1) }

\* Game.computer_turn once suggest_move has returned mv, on the game g that
\* suggest_move left: [success, result, game]
computer_turn(g, mv) ==
  IF mv # NoMove
  THEN LET r == perform_move(g, mv)
       IN  IF r.success THEN [r EXCEPT !.game = next_turn(r.game)] ELSE r
  ELSE [success |-> FALSE, result |-> "", game |-> g]

\* the dispatch of the main loop: the side to move is played by human_turn
human_to_move(g) ==
  \/ g.options.game_type = "AttackerVsDefender"
  \/ g.options.game_type = "AttackerVsComp" /\ g.next_player = Attacker
  \/ g.options.game_type = "CompVsDefender" /\ g.next_player = Defender

VARIABLES
  game,     \* the Game object of the main loop
  last,     \* outcome of the last perform_move: success, result, applied move
  process,  \* "running", or how the process ended: "exit(1)", "ValueError",
            \* "IndexError"
  input     \* the last line read from the keyboard or response received
            \* from the broker, << >> before the first

vars == <<game, last, process, input>>

Init ==
  /\ game = new_game(MaxTurns)
  /\ last = [success |-> FALSE, result |-> "", move |-> NoMove]
  /\ process = "running"
  /\ input = << >>

ScenarioInit ==
  /\ game = new_game(ScenarioMaxTurns)
  /\ last = [success |-> FALSE, result |-> "", move |-> NoMove]
  /\ process = "running"
  /\ input = << >>

\* main loop, human side: the game has no winner and human_turn tries mv
HumanMove(mv) ==
  /\ process = "running"
  /\ has_winner(game) = NoWinner
  /\ human_to_move(game)
  /\ LET r == human_turn(game, mv)
     IN  /\ game' = r.game
         /\ last' = [success |-> r.success, result |-> r.result,
                     move |-> IF r.success THEN mv ELSE NoMove]
  /\ process' = process

\* the same, the move mv being given and no line read
HumanTurn(mv) == HumanMove(mv) /\ input' = input

\* main loop, computer side: computer_turn; an exception raised inside
\* suggest_move is not caught and ends the process, and a move of None makes
\* main call exit(1)
ComputerTurn ==
  /\ process = "running"
  /\ has_winner(game) = NoWinner
  /\ ~human_to_move(game)
  /\ \E s \in {suggest_move(game)} :
       IF s.error # ""
       THEN /\ game' = s.game
            /\ last' = last
            /\ process' = s.error
       ELSE \E mv \in s.moves :
              LET r == computer_turn(s.game, mv)
              IN  /\ game' = r.game
                  /\ last' = [success |-> r.success, result |-> r.result,
                              move |-> IF r.success THEN mv ELSE NoMove]
                  /\ process' = IF mv = NoMove THEN "exit(1)" ELSE "running"
  /\ input' = input

EndgameInit ==
  /\ game = new_game(EndgameMaxTurns)
  /\ last = [success |-> FALSE, result |-> "", move |-> NoMove]
  /\ process = "running"
  /\ input = << >>

DrawInit ==
  /\ game = new_game(DrawMaxTurns)
  /\ last = [success |-> FALSE, result |-> "", move |-> NoMove]
  /\ process = "running"
  /\ input = << >>

\* main: game_type is GameType.AttackerVsComp and --max_depth overrides
\* Options.max_depth
SearchInit ==
  /\ \E d \in 1 .. MaxDepth :
       game = [new_game(SearchMaxTurns) EXCEPT
                 !.options.game_type = "AttackerVsComp",
                 !.options.max_depth = d]
  /\ last = [success |-> FALSE, result |-> "", move |-> NoMove]
  /\ process = "running"
  /\ input = << >>

\* main with a broker given: --broker sets Options.broker
BrokerInit ==
  /\ game = [new_game(BrokerMaxTurns) EXCEPT !.options.broker = "http://broker"]
  /\ last = [success |-> FALSE, result |-> "", move |-> NoMove]
  /\ process = "running"
  /\ input = << >>

\* main loop, human side, one pass of the broker loop of human_turn on the
\* response r: the move of the response is tried, or there is no move and
\* the loop sleeps and polls again
BrokerTurn(r) ==
  /\ input' = r
  /\ \E mv \in {get_move_from_broker(game, r)} :
       \/ /\ mv # NonePair
          /\ HumanMove(mv)
       \/ /\ mv = NonePair
          /\ process = "running"
          /\ has_winner(game) = NoWinner
          /\ human_to_move(game)
          /\ UNCHANGED <<game, last, process>>

\* main as above, the moves being typed at the keyboard
KeyboardInit ==
  /\ game = new_game(KeyboardMaxTurns)
  /\ last = [success |-> FALSE, result |-> "", move |-> NoMove]
  /\ process = "running"
  /\ input = << >>

\* main loop, human side, one line typed: read_move returns it as a move
\* and human_turn tries the move, or read_move asks again
KeyboardTurn(s) ==
  /\ input' = s
  /\ \/ /\ read_move_accepts(s)
        /\ HumanMove(CoordPair_from_string(s))
     \/ /\ ~read_move_accepts(s)
        /\ process = "running"
        /\ has_winner(game) = NoWinner
        /\ human_to_move(game)
        /\ last' = [success |-> FALSE, result |-> "Invalid coordinates! Try again.",
                    move |-> NoMove]
        /\ UNCHANGED <<game, process>>

\* main: game_type is GameType.AttackerVsComp and --max_depth is 2 or more
DeepInit ==
  /\ \E d \in 2 .. DeepMaxDepth :
       game = [new_game(DefaultMaxTurns) EXCEPT
                 !.options.game_type = "AttackerVsComp",
                 !.options.max_depth = d]
  /\ last = [success |-> FALSE, result |-> "", move |-> NoMove]
  /\ process = "running"
  /\ input = << >>

Next == \E mv \in Inputs : HumanTurn(mv)

Spec == Init /\ [][Next]_vars

ScenarioNext == \E mv \in ScenarioMoves : HumanTurn(mv)

\* the games explored in depth
ScenarioSpec == ScenarioInit /\ [][ScenarioNext]_vars

\* the players follow the line of play or skip ahead in it by at most
\* EndgameSkip moves
EndgameNext ==
  \E k \in 1 .. Len(EndgameLine) :
    /\ k >= game.turns_played
    /\ k <= game.turns_played + EndgameSkip
    /\ HumanTurn(EndgameLine[k])

\* the games that lead to the endgames the search is examined on
EndgameSpec == EndgameInit /\ [][EndgameNext]_vars

\* the players follow the line of play or skip ahead in it by at most
\* EndgameSkip moves
DrawNext ==
  \E k \in 1 .. Len(DrawLine) :
    /\ k >= game.turns_played
    /\ k <= game.turns_played + EndgameSkip
    /\ HumanTurn(DrawLine[k])

\* the games that lead to the loss of both AIs
DrawSpec == DrawInit /\ [][DrawNext]_vars

BrokerNext == \E r \in BrokerResponses : BrokerTurn(r)

\* the games played through the broker
BrokerSpec == BrokerInit /\ [][BrokerNext]_vars

KeyboardNext == \E s \in TypedLines : KeyboardTurn(s)

\* the games played by typing lines
KeyboardSpec == KeyboardInit /\ [][KeyboardNext]_vars

DeepNext ==
  /\ game.turns_played <= DeepPlies
  /\ \/ \E mv \in SearchMoves : HumanTurn(mv)
     \/ ComputerTurn

\* the games of a human Attacker against the computer searching deep
DeepSpec == DeepInit /\ [][DeepNext]_vars

SearchNext ==
  \/ \E mv \in SearchMoves : HumanTurn(mv)
  \/ ComputerTurn

\* the games of a human Attacker against the computer
SearchSpec == SearchInit /\ [][SearchNext]_vars

(***************************************************************************)
(* Properties                                                              *)
(***************************************************************************)

\* a live AI of player p stands on the board of g
AIOnBoard(g, p) ==
  \E c \in Cells :
    g.board[c].player = p /\ g.board[c].type = "AI" /\ g.board[c].health > 0

\* the moves whose two coordinates are cells of the board
BoardMoves == {mv \in Inputs : mv.src \in Cells /\ mv.dst \in Cells}

\* C1: in every reachable state each AI-presence flag is true iff that side's
\* AI stands on the board with health > 0
C1_FlagsMatchBoard ==
  /\ game.attacker_has_ai <=> AIOnBoard(game, Attacker)
  /\ game.defender_has_ai <=> AIOnBoard(game, Defender)

\* C2: below the turn cap has_winner follows the AIs on the board: Attacker
\* when only the Defender's AI is gone, Defender when only the Attacker's AI
\* is gone, no winner while both stand
C2_WinnerFollowsBoard ==
  game.turns_played < game.options.max_turns =>
    /\ (AIOnBoard(game, Attacker) /\ ~AIOnBoard(game, Defender))
         => has_winner(game) = Attacker
    /\ (~AIOnBoard(game, Attacker) /\ AIOnBoard(game, Defender))
         => has_winner(game) = Defender
    /\ (AIOnBoard(game, Attacker) /\ AIOnBoard(game, Defender))
         => has_winner(game) = NoWinner

\* C3: once turns_played has reached max_turns has_winner is Defender,
\* whatever the two AI-presence flags are
C3_TurnCapWins ==
  game.turns_played >= game.options.max_turns =>
    \A fa \in BOOLEAN, fd \in BOOLEAN :
      has_winner([game EXCEPT !.attacker_has_ai = fa, !.defender_has_ai = fd])
        = Defender

\* C3 witness: the turn cap is reached right after the Defender's AI
\* self-destructed, and the Defender still wins
C3_Witness ==
  /\ game.turns_played >= game.options.max_turns
  /\ last.success
  /\ last.move = Move(0, 0, 0, 0)
  /\ ~game.defender_has_ai
  /\ game.attacker_has_ai
  /\ has_winner(game) = Defender

\* C4: a rejected perform_move or computer_perform_move leaves the whole
\* game as it was, and human_turn then does not advance the turn
C4_RejectedLeavesState ==
  \A mv \in Inputs :
    LET r == perform_move(game, mv)
        c == computer_perform_move(game, mv)
    IN  /\ ~r.success => (r.game = game /\ human_turn(game, mv).game = game)
        /\ ~c.success => c.game = game

\* C4 witness: a move has been rejected after a first move was applied
C4_Witness ==
  /\ ~last.success
  /\ last.result = "invalid move"
  /\ game.turns_played = 2
  /\ game.next_player = Defender

\* C5: is_valid_move is false when a coordinate is off the board, the source
\* cell is empty, or the source unit is not next_player's
C5_InvalidSource ==
  \A mv \in Inputs :
    ( \/ mv.src \notin Cells
      \/ mv.dst \notin Cells
      \/ game.board[mv.src] = None
      \/ game.board[mv.src].player # game.next_player )
    => ~is_valid_move(game, mv)

\* C5 witness: a move was rejected in a state whose board holds empty cells
\* and units of the side that is not to move
C5_Witness ==
  /\ ~last.success
  /\ last.result = "invalid move"
  /\ \E c \in Cells : game.board[c] = None
  /\ \E c \in Cells :
       game.board[c] # None /\ game.board[c].player # game.next_player

\* the unit of next_player at mv.src and a different cell mv.dst holding a
\* unit of the same owner
FriendlyTarget(g, mv) ==
  /\ mv.src # mv.dst
  /\ g.board[mv.src] # None
  /\ g.board[mv.src].player = g.next_player
  /\ g.board[mv.dst] # None
  /\ g.board[mv.dst].player = g.board[mv.src].player

\* C6: a move onto a friendly unit that is not a repair is not valid and is
\* rejected by perform_move, also between two units of the same archetype
\* and health
C6_FriendlyNonRepairRejected ==
  \A mv \in BoardMoves :
    (FriendlyTarget(game, mv) /\ ~is_in_repair(game, mv)) =>
      /\ ~is_valid_move(game, mv)
      /\ ~perform_move(game, mv).success

\* the up and left neighbours of a cell, and its down and right neighbours
UpLeft(c) == {<<c[1] - 1, c[2]>>, <<c[1], c[2] - 1>>}

DownRight(c) == {<<c[1] + 1, c[2]>>, <<c[1], c[2] + 1>>}

Restricted == {"AI", "Firewall", "Program"}

\* C7: a valid move with dst # src of an Attacker AI, Firewall or Program
\* goes up or left, one of a Defender AI, Firewall or Program goes down or
\* right
C7_Direction ==
  \A mv \in BoardMoves :
    (is_valid_move(game, mv) /\ mv.dst # mv.src
       /\ game.board[mv.src].type \in Restricted) =>
      /\ game.board[mv.src].player = Attacker => mv.dst \in UpLeft(mv.src)
      /\ game.board[mv.src].player = Defender => mv.dst \in DownRight(mv.src)

\* an enemy unit stands on one of the four orthogonal neighbours of c
EnemyAdjacent(g, c) ==
  \E d \in UpLeft(c) \cup DownRight(c) :
    d \in Cells /\ g.board[d] # None /\ g.board[d].player # g.board[c].player

\* the cells an AI, Firewall or Program of player p at c may target
Allowed(p, c) == IF p = Attacker THEN UpLeft(c) ELSE DownRight(c)

\* C8: an AI, Firewall or Program with an enemy on an orthogonal neighbour
\* may not move to an empty cell, may attack an enemy in its allowed
\* directions and may self-destruct; a Virus or Tech may move to an empty
\* neighbour whether or not an enemy is adjacent
C8_CombatLock ==
  \A src \in Cells :
    (game.board[src] # None /\ game.board[src].player = game.next_player) =>
      /\ (game.board[src].type \in Restricted /\ EnemyAdjacent(game, src)) =>
           /\ \A dst \in Cells :
                game.board[dst] = None =>
                  /\ ~is_valid_move(game, [src |-> src, dst |-> dst])
                  /\ ~perform_move(game, [src |-> src, dst |-> dst]).success
           /\ \A dst \in Allowed(game.next_player, src) \cap Cells :
                (game.board[dst] # None
                   /\ game.board[dst].player # game.next_player) =>
                  is_valid_move(game, [src |-> src, dst |-> dst])
           /\ is_valid_move(game, [src |-> src, dst |-> src])
      /\ game.board[src].type \in {"Virus", "Tech"} =>
           \A dst \in (UpLeft(src) \cup DownRight(src)) \cap Cells :
             game.board[dst] = None =>
               is_valid_move(game, [src |-> src, dst |-> dst])

\* C8 witness: a move was rejected while a Firewall of the side to move
\* has an enemy beside it and an empty cell in an allowed direction
C8_Witness ==
  /\ ~last.success
  /\ last.result = "invalid move"
  /\ \E src \in Cells :
       /\ game.board[src].player = game.next_player
       /\ game.board[src].type = "Firewall"
       /\ EnemyAdjacent(game, src)
       /\ \E dst \in Allowed(game.next_player, src) \cap Cells :
            game.board[dst] = None

\* the unit of next_player at mv.src and an enemy unit at mv.dst
IsAttack(g, mv) ==
  /\ g.board[mv.src] # None
  /\ g.board[mv.src].player = g.next_player
  /\ g.board[mv.dst] # None
  /\ g.board[mv.dst].player # g.board[mv.src].player

\* unit u after losing amount health: health max(0, health - amount), and
\* the cell is empty when that is 0
Hit(u, amount) ==
  IF u.health - amount <= 0 THEN None ELSE [u EXCEPT !.health = u.health - amount]

\* the damage table entry of unit a against unit b
Damage(a, b) == damage_table[UnitType[a.type] + 1][UnitType[b.type] + 1]

\* the board C9 describes after the unit at mv.src attacked the one at mv.dst
AttackedBoard(g, mv) ==
  [c \in Cells |->
     IF c = mv.src THEN Hit(g.board[mv.src], Damage(g.board[mv.dst], g.board[mv.src]))
     ELSE IF c = mv.dst THEN Hit(g.board[mv.dst], Damage(g.board[mv.src], g.board[mv.dst]))
     ELSE g.board[c]]

\* C9: an accepted attack leaves each of the two units with its pre-attack
\* health less the other's damage table entry (at least 0), removes each
\* unit that reaches 0, and changes no other cell; from the initial layout a
\* Virus attacking the Defender's Program leaves the Program at 3 and the
\* Virus at 6
C9_Attack ==
  /\ \A mv \in BoardMoves :
       IsAttack(game, mv) =>
         LET r == perform_move(game, mv)
             c == computer_perform_move(game, mv)
         IN  /\ r.success => r.game.board = AttackedBoard(game, mv)
             /\ c.success => c.game.board = AttackedBoard(game, mv)
  /\ (game.turns_played = 1 /\ game.board = initial_board) =>
       \A v \in {<<3, 4>>, <<4, 3>>} :
         LET r == perform_move(game, [src |-> v, dst |-> <<1, 1>>])
         IN  /\ r.success
             /\ r.game.board[<<1, 1>>] = [Unit(Defender, "Program") EXCEPT !.health = 3]
             /\ r.game.board[v] = [Unit(Attacker, "Virus") EXCEPT !.health = 6]

\* C9 witness: the Virus of (3,4) attacked the Tech of (0,1) and both died
C9_Witness ==
  /\ last.success
  /\ last.move = Move(3, 4, 0, 1)
  /\ last.result = "Attacked the opponent, the health levels have been adjusted!"
  /\ game.board[<<3, 4>>] = None
  /\ game.board[<<0, 1>>] = None
  /\ game.next_player = Defender

\* the cells of the board among the 8 that surround c
Ring(c) ==
  {d \in Cells : d # c /\ d[1] - c[1] \in {-1, 0, 1} /\ d[2] - c[2] \in {-1, 0, 1}}

\* the board C10 describes after the unit at c self-destructed
SelfDestructedBoard(g, c) ==
  [d \in Cells |->
     IF d = c THEN None
     ELSE IF d \in Ring(c) /\ g.board[d] # None THEN Hit(g.board[d], 2)
     ELSE g.board[d]]

\* the AI of player p is at c or is a unit of the ring of c with health <= 2
AIDiesBySelfDestruct(g, c, p) ==
  \E d \in Ring(c) \cup {c} :
    /\ g.board[d].player = p
    /\ g.board[d].type = "AI"
    /\ (d = c \/ g.board[d].health <= 2)

\* the state C10 describes after the unit at c self-destructed
SelfDestructed(g, c, after) ==
  /\ after.board = SelfDestructedBoard(g, c)
  /\ after.attacker_has_ai =
       (g.attacker_has_ai /\ ~AIDiesBySelfDestruct(g, c, Attacker))
  /\ after.defender_has_ai =
       (g.defender_has_ai /\ ~AIDiesBySelfDestruct(g, c, Defender))
  /\ after.next_player = g.next_player
  /\ after.turns_played = g.turns_played

IsRepair(g, mv) == FriendlyTarget(g, mv) /\ is_in_repair(g, mv)

\* the repair table entry of unit a for unit b
Repair(a, b) == repair_table[UnitType[a.type] + 1][UnitType[b.type] + 1]

\* the smaller of two integers
Min(a, b) == IF a < b THEN a ELSE b

\* the board C11 describes after the unit at mv.src repaired the one at mv.dst
RepairedBoard(g, mv) ==
  LET amount == Min(Repair(g.board[mv.src], g.board[mv.dst]), 9 - g.board[mv.dst].health)
  IN  [g.board EXCEPT ![mv.dst].health = g.board[mv.dst].health + amount]

\* first half of C11: an accepted repair adds min(table entry, 9 - health),
\* at least 1, to the health of the unit at dst and changes nothing else
C11_AcceptedRepair ==
  \A mv \in BoardMoves :
    IsRepair(game, mv) =>
      LET r == perform_move(game, mv)
          c == computer_perform_move(game, mv)
      IN  /\ r.success => /\ r.game = [game EXCEPT !.board = RepairedBoard(game, mv)]
                          /\ r.game.board[mv.dst].health > game.board[mv.dst].health
                          /\ r.game.board[mv.src] = game.board[mv.src]
          /\ c.success = r.success
          /\ c.game = r.game

\* second half of C11: a repair attempt on a friendly unit at health 9, or
\* one whose table entry is 0, is not a successful move and changes nothing
C11_UselessRepairRejected ==
  \A mv \in BoardMoves :
    ( /\ FriendlyTarget(game, mv)
      /\ \/ game.board[mv.dst].health = 9
         \/ Repair(game.board[mv.src], game.board[mv.dst]) = 0 ) =>
      LET r == perform_move(game, mv)
      IN  ~r.success /\ r.game = game

\* C11: an accepted repair raises the health of the unit at dst by
\* min(repair_table entry, 9 - health), at least 1, and changes nothing else;
\* a repair attempt on a friendly unit at health 9 or with table entry 0
\* has no effect and is not a successful move
C11_Repair == C11_AcceptedRepair /\ C11_UselessRepairRejected

\* the elements of a sequence
Range(s) == {s[i] : i \in 1 .. Len(s)}

\* the cells holding a unit of next_player
OwnCells(g) ==
  {c \in Cells : g.board[c] # None /\ g.board[c].player = g.next_player}

\* the pairs C12 describes: src holds a unit of next_player and dst is src or
\* an orthogonal neighbour of src with is_valid_move true
DescribedCandidates(g) ==
  {mv \in Inputs :
     /\ mv.src \in OwnCells(g)
     /\ \/ mv.dst = mv.src
        \/ /\ mv.dst \in UpLeft(mv.src) \cup DownRight(mv.src)
           /\ is_valid_move(g, mv)}

\* C12: move_candidates yields exactly the pairs (src, dst) with a unit of
\* next_player at src and dst either a valid orthogonal neighbour or src
\* itself, each once; the self-destruct pair of every unit is among them, so
\* the list is empty iff next_player has no unit; computer_perform_move
\* applies every yielded pair successfully
C12_MoveCandidates ==
  LET moves == move_candidates(game)
  IN  /\ Range(moves) = DescribedCandidates(game)
      /\ Cardinality(Range(moves)) = Len(moves)
      /\ \A c \in OwnCells(game) : [src |-> c, dst |-> c] \in Range(moves)
      /\ (moves = << >>) <=> (OwnCells(game) = {})
      /\ \A i \in 1 .. Len(moves) : computer_perform_move(game, moves[i]).success

\* C12 witness: after an applied move the side to move has a unit whose only
\* candidate is its self-destruct, a candidate that is an attack and a
\* candidate that is a repair
C12_Witness ==
  LET moves == move_candidates(game)
  IN  /\ last.success
      /\ \E c \in OwnCells(game) :
           \A i \in 1 .. Len(moves) : moves[i].src = c => moves[i].dst = c
      /\ \E i \in 1 .. Len(moves) : IsAttack(game, moves[i])
      /\ \E i \in 1 .. Len(moves) : IsRepair(game, moves[i])

\* the placement C13 lists: cell, owner and type of each of the 12 units
Layout ==
  { <<<<0, 0>>, Defender, "AI">>, <<<<1, 0>>, Defender, "Tech">>,
    <<<<0, 1>>, Defender, "Tech">>, <<<<2, 0>>, Defender, "Firewall">>,
    <<<<0, 2>>, Defender, "Firewall">>, <<<<1, 1>>, Defender, "Program">>,
    <<<<4, 4>>, Attacker, "AI">>, <<<<3, 4>>, Attacker, "Virus">>,
    <<<<4, 3>>, Attacker, "Virus">>, <<<<2, 4>>, Attacker, "Program">>,
    <<<<4, 2>>, Attacker, "Program">>, <<<<3, 3>>, Attacker, "Firewall">> }

\* g is the newly created game C13 describes
IsNewGame(g) ==
  /\ Cardinality({c \in Cells : g.board[c] # None}) = 12
  /\ \A u \in Layout :
       g.board[u[1]] = [player |-> u[2], type |-> u[3], health |-> 9]
  /\ \A c \in Cells : (\A u \in Layout : u[1] # c) => g.board[c] = None
  /\ g.turns_played = 1
  /\ g.next_player = Attacker
  /\ g.attacker_has_ai
  /\ g.defender_has_ai

\* C13: a newly created game has exactly the 12 units of the listed layout,
\* all at health 9, every other cell empty, turns_played 1, Attacker to move
\* and both AI-presence flags true; the game of the main loop is that game
\* until its first move is applied
C13_NewGame ==
  /\ IsNewGame(new_game(game.options.max_turns))
  /\ game.turns_played = 1 => IsNewGame(game)

\* C13 witness: the game is still the newly created one after a first
\* attempt was rejected
C13_Witness ==
  /\ game.turns_played = 1
  /\ game.board[<<1, 1>>] = Unit(Defender, "Program")
  /\ last.result = "invalid move"

\* the larger of two integers
Max(a, b) == IF a > b THEN a ELSE b

\* every unit with a health in 0 .. 9
AnyUnits ==
  [player : {Attacker, Defender}, type : DOMAIN UnitType, health : 0 .. 9]

\* C14: for every unit with health in 0 .. 9 and every delta, the health
\* after Unit.mod_health(delta) is min(9, max(0, health + delta)), a value of
\* 0 .. 9, and nothing else of the unit changes
C14_HealthClamped ==
  \A u \in AnyUnits \cup ({game.board[c] : c \in Cells} \ {None}) :
    \A delta \in -MaxDelta .. MaxDelta :
      LET after == Unit_mod_health(u, delta)
      IN  /\ after.health = Min(9, Max(0, u.health + delta))
          /\ after.health \in 0 .. 9
          /\ after = [u EXCEPT !.health = after.health]

\* C14 witness: the Virus of (3,4), left with health 3 by its attack on the
\* Tech of (0,1), has been attacked by the Tech of (1,0): a delta of -6 on a
\* health of 3 left it at 0
C14_Witness ==
  /\ last.success
  /\ last.move = Move(1, 0, 3, 4)
  /\ game.board[<<0, 1>>] = [Unit(Defender, "Tech") EXCEPT !.health = 3]
  /\ game.board[<<1, 0>>] = [Unit(Defender, "Tech") EXCEPT !.health = 3]
  /\ game.board[<<3, 4>>] = None

\* C15: on every coordinate pair computer_perform_move and perform_move
\* succeed together and, from the same state, leave the same board, unit
\* healths, AI-presence flags, next_player and turns_played
C15_SilentVariantAgrees ==
  \A mv \in Inputs :
    LET r == perform_move(game, mv)
        c == computer_perform_move(game, mv)
    IN  /\ c.success = r.success
        /\ c.game.board = r.game.board
        /\ c.game.attacker_has_ai = r.game.attacker_has_ai
        /\ c.game.defender_has_ai = r.game.defender_has_ai
        /\ c.game = r.game

\* C15 witness: the Defender is to move after the Virus of (3,4) attacked
\* the Tech of (0,1), with a repair, an attack and a rejected pair among the
\* inputs
C15_Witness ==
  /\ last.success
  /\ last.move = Move(3, 4, 0, 1)
  /\ game.next_player = Defender
  /\ game.board[<<0, 1>>] = [Unit(Defender, "Tech") EXCEPT !.health = 3]
  /\ \E mv \in BoardMoves : IsRepair(game, mv) /\ perform_move(game, mv).success
  /\ \E mv \in BoardMoves : IsAttack(game, mv) /\ perform_move(game, mv).success
  /\ \E mv \in Inputs : ~perform_move(game, mv).success

(***************************************************************************)
(* The search.                                                             *)
(***************************************************************************)
\* the states the search is examined on: the game goes on and the board and
\* the choice of the side to move are small
Searchable(g) ==
  /\ has_winner(g) = NoWinner
  /\ Cardinality({c \in Cells : g.board[c] # None}) <= SearchMaxUnits
  /\ Len(move_candidates(g)) <= SearchMaxMoves

RECURSIVE Backup(_, _)
\* the minimax value of a node of the tree: the heuristic score at a leaf,
\* and above a leaf the largest value of the children where the searcher is
\* to move and the smallest where the opponent is
Backup(node, searcher_to_move) ==
  IF node.children = << >>
  THEN node.score
  ELSE LET vals == {Backup(node.children[i], ~searcher_to_move) :
                      i \in 1 .. Len(node.children)}
       IN  IF searcher_to_move
           THEN CHOOSE v \in vals : \A x \in vals : x <= v
           ELSE CHOOSE v \in vals : \A x \in vals : v <= x

\* the moves of the root children of the largest minimax value
BackupBest(root) ==
  LET val(i) == Backup(root.children[i], FALSE)
      idx == 1 .. Len(root.children)
  IN  {root.children[i].coords :
         i \in {j \in idx : \A k \in idx : val(k) <= val(j)}}

\* the tree the engine builds for the game g
TreeOf(g) == createTree(new_object(EmptyHeap, g), 1, 1).node

\* C17: the move chosen by the decision engine is a root move of the largest
\* minimax value, the heuristic being evaluated at the leaves of the tree and
\* backed up with the minimum where the opponent is to move and the maximum
\* where the searcher is
C17_EngineMaximisesMinimax ==
  (Searchable(game) /\ move_candidates(game) # << >>)
    => suggest_move(game).moves \subseteq BackupBest(TreeOf(game))

RECURSIVE TreeSize(_)
RECURSIVE TreeSizes(_, _)
\* the number of nodes of a tree
TreeSize(node) == 1 + TreeSizes(node.children, Len(node.children))

\* the number of nodes of the trees children[1..n]
TreeSizes(children, n) ==
  IF n = 0 THEN 0 ELSE TreeSizes(children, n - 1) + TreeSize(children[n])

\* addNode makes one clone per node below the root, in the order it visits
\* them: the object of the i-th child of the node whose object is ref
CloneOf(node, ref, i) == ref + 1 + TreeSizes(node.children, i - 1)

RECURSIVE ClonesReplay(_, _, _, _)
\* every clone below node holds, once the tree is built, the game obtained from
\* the value g of its parent by its own move and the turn change, and nothing
\* else: no move applied to another clone has reached it
ClonesReplay(heap, node, ref, g) ==
  \A i \in 1 .. Len(node.children) :
    LET child == node.children[i]
        after == next_turn(computer_perform_move(g, child.coords).game)
    IN  /\ deref(heap, CloneOf(node, ref, i)) = after
        /\ ClonesReplay(heap, child, CloneOf(node, ref, i), after)

\* C16: building the tree and choosing a move leave the real game as it was
\* (board, healths, next_player, turns_played, AI flags), every clone has a
\* board object of its own, and a move applied to a clone changes neither its
\* parent nor a sibling: each clone ends as its parent's state plus its own move
C16_SearchLeavesGames ==
  Searchable(game) =>
    LET tree == createTree(new_object(EmptyHeap, game), 1, 1)
        refs == 1 .. Len(tree.heap.games)
    IN  /\ deref(tree.heap, 1) = game
        /\ suggest_move(game).game = game
        /\ Len(tree.heap.games) = TreeSize(tree.node)
        /\ \A r1, r2 \in refs :
             tree.heap.games[r1].board = tree.heap.games[r2].board => r1 = r2
        /\ ClonesReplay(tree.heap, tree.node, 1, game)

\* a tree of three levels has been built for a game in which the Defender has
\* its AI, and in some of the clones a move has destroyed that AI
C16_Witness ==
  /\ Searchable(game)
  /\ game.defender_has_ai
  /\ LET tree == createTree(new_object(EmptyHeap, game), 1, 1)
     IN  /\ \E r \in 2 .. Len(tree.heap.games) :
              /\ ~deref(tree.heap, r).defender_has_ai
              /\ deref(tree.heap, r).board # game.board
         /\ \E i \in 1 .. Len(tree.node.children) :
              \E j \in 1 .. Len(tree.node.children[i].children) :
                tree.node.children[i].children[j].children # << >>

\* the value Game.minimax gives to the i-th child of the root
ChildValue(root, i) == minimax(root.children[i], 3, FALSE)

\* C18: for a tree whose root has a child, optimal_move_minimax returns the
\* largest of the values minimax gives to the root children as the score, and
\* its possible moves are exactly the moves of the children of that value:
\* every tied child can be returned and no child of a lower value can
C18_OptimalMove ==
  (Searchable(game) /\ TreeOf(game).children # << >>) =>
    LET root == TreeOf(game)
        idx == 1 .. Len(root.children)
        best == {i \in idx : \A k \in idx : ChildValue(root, k) <= ChildValue(root, i)}
        r == optimal_move_minimax(root, 3)
    IN  /\ r.error = ""
        /\ \A i \in best : r.score = ChildValue(root, i)
        /\ r.moves = {root.children[i].coords : i \in best}
        /\ \A i \in idx \ best : root.children[i].coords \notin r.moves

\* the root has two children tied for the largest value and a child of a
\* lower value
C18_Witness ==
  /\ Searchable(game)
  /\ LET root == TreeOf(game)
         idx == 1 .. Len(root.children)
     IN  /\ \E i, j \in idx :
              /\ i # j
              /\ ChildValue(root, i) = ChildValue(root, j)
              /\ \A k \in idx : ChildValue(root, k) <= ChildValue(root, i)
         /\ \E i, k \in idx : ChildValue(root, k) < ChildValue(root, i)
         /\ Cardinality(optimal_move_minimax(root, 3).moves) >= 2

(***************************************************************************)
(* The heuristics.                                                         *)
(***************************************************************************)
\* the scores of the game g from the perspective of player p: heuristic 0 is
\* e0, 1 is e1 on the candidate moves of g, 2 is e2
Score(h, g, p) ==
  IF h = 0 THEN e0(g, p)
  ELSE IF h = 1 THEN e1(g, p, move_candidates(g))
  ELSE e2(g, p)

\* a score between those of the games with and without the AI of the
\* perspective player, the opponent's AI being on the board in both or in
\* neither: half the weight of an AI, below zero when the opponent has its AI
Divide(h, opponent_has_ai) ==
  LET half == IF h = 0 THEN 5000 ELSE IF h = 1 THEN 50000 ELSE 4000
  IN  IF opponent_has_ai THEN -half ELSE half

\* C19: for e0, e1 and e2 and either perspective player, among the reachable
\* states that agree on the presence of the opponent's AI every state with the
\* player's AI on the board scores strictly higher than every state without
\* it: the former score above Divide and the latter below
C19_AIDominates ==
  \A h \in 0 .. 2 : \A p \in {Attacker, Defender} :
    LET opponent_has_ai == AIOnBoard(game, Player_next(p))
    IN  IF AIOnBoard(game, p)
        THEN Score(h, game, p) > Divide(h, opponent_has_ai)
        ELSE Score(h, game, p) < Divide(h, opponent_has_ai)

\* the Attacker's AI has destroyed itself and the Defender has its AI: in
\* all three heuristics the Attacker scores below the Defender
C19_Witness ==
  /\ ~AIOnBoard(game, Attacker)
  /\ AIOnBoard(game, Defender)
  /\ last.move = Move(4, 4, 4, 4)
  /\ \A h \in 0 .. 2 : Score(h, game, Attacker) < Score(h, game, Defender)

(***************************************************************************)
(* The computer's turn.                                                    *)
(***************************************************************************)
\* C20: when the computer is to move and the root of its tree has no child
\* (no candidate move, or none expanded), its turn ends in the fatal outcome
\* of the main loop, exit(1) with the game as it was, and not in an error
\* raised inside the search
C20_NoCandidateFatal ==
  [][(/\ process = "running"
      /\ has_winner(game) = NoWinner
      /\ ~human_to_move(game)
      /\ TreeOf(game).children = << >>)
       => (process' = "exit(1)" /\ game' = game)]_vars

(***************************************************************************)
(* The board.                                                              *)
(***************************************************************************)
\* C30: every move that is_valid_move accepts and perform_move applies has
\* dst equal to src or one of the four orthogonal neighbours of src, whatever
\* the type of the unit
C30_AcceptedMovesAdjacent ==
  \A mv \in BoardMoves :
    (is_valid_move(game, mv) /\ perform_move(game, mv).success)
      => (mv.dst = mv.src \/ mv.dst \in Range(iter_adjacent(mv.src)))

C25_NeverBothAIsGone ==
  game.attacker_has_ai \/ game.defender_has_ai

\* C23: an AI-presence flag that is false stays false in every later state
C23_FlagsStayFalse ==
  [][/\ ~game.attacker_has_ai => ~game'.attacker_has_ai
     /\ ~game.defender_has_ai => ~game'.defender_has_ai]_vars

\* both flags are false and a move has been played since: a Program of the
\* Attacker has destroyed itself
C23_Witness ==
  /\ ~game.attacker_has_ai
  /\ ~game.defender_has_ai
  /\ last.success
  /\ last.move = Move(2, 4, 2, 4)
  /\ game.board[<<2, 4>>] = None

(***************************************************************************)
(* The shape of the tree.                                                  *)
(***************************************************************************)
RECURSIVE TreeShape(_, _, _, _, _)
\* the subtree of node, whose Game object is ref and whose game is g, has the
\* shape addNode gives it below depth: a leaf at the depth bound or when g has
\* a winner, and otherwise one child per candidate move of g, in order, each
\* holding the clone that computer_perform_move and next_turn have acted on
TreeShape(heap, node, ref, g, depth) ==
  /\ depth <= g.options.max_depth - 1
  /\ IF depth = g.options.max_depth - 1 \/ has_winner(g) # NoWinner
     THEN node.children = << >>
     ELSE /\ Len(node.children) = Len(move_candidates(g))
          /\ \A i \in 1 .. Len(node.children) :
               LET child == node.children[i]
                   after == next_turn(computer_perform_move(g, child.coords).game)
               IN  /\ child.coords = move_candidates(g)[i]
                   /\ child.currentDepth = depth + 1
                   /\ deref(heap, CloneOf(node, ref, i)) = after
                   /\ TreeShape(heap, child, CloneOf(node, ref, i), after, depth + 1)

RECURSIVE Leaves(_, _, _, _, _)
\* the leaves of the subtree of node: the depth of each and its game
Leaves(heap, node, ref, g, depth) ==
  IF node.children = << >>
  THEN {[depth |-> depth, game |-> g]}
  ELSE UNION {Leaves(heap, node.children[i], CloneOf(node, ref, i),
                     deref(heap, CloneOf(node, ref, i)), depth + 1) :
                i \in 1 .. Len(node.children)}

\* C26: in the tree createTree builds no node is deeper than max_depth - 1, a
\* node at depth max_depth - 1 and a node whose game has a winner (the turn cap
\* included) have no children, and every other node has one child per move of
\* its candidate list, the child's game being the parent's after the move and
\* the change of turn
C26_TreeShape ==
  LET tree == createTree(new_object(EmptyHeap, game), 1, 1)
  IN  TreeShape(tree.heap, tree.node, 1, game, 0)

\* two moves have been played and the tree of max_depth 3 has leaves above
\* the depth bound of both kinds: one whose game has reached the turn cap with
\* both AIs on the board, and one in which an AI has been destroyed
C26_Witness ==
  /\ game.options.max_depth = 3
  /\ has_winner(game) = NoWinner
  /\ last.success
  /\ LET tree == createTree(new_object(EmptyHeap, game), 1, 1)
         leaves == Leaves(tree.heap, tree.node, 1, game, 0)
     IN  /\ tree.node.children # << >>
         /\ \E l \in leaves :
              /\ l.depth = 1
              /\ l.game.turns_played >= l.game.options.max_turns
              /\ l.game.attacker_has_ai /\ l.game.defender_has_ai
         /\ \E l \in leaves :
              /\ l.depth = 1
              /\ ~(l.game.attacker_has_ai /\ l.game.defender_has_ai)

(***************************************************************************)
(* The backed-up values.                                                   *)
(***************************************************************************)
RECURSIVE InternalNodes(_)
\* the nodes of the subtree of node that have children
InternalNodes(node) ==
  IF node.children = << >>
  THEN {}
  ELSE {node} \cup UNION {InternalNodes(node.children[i]) :
                            i \in 1 .. Len(node.children)}

\* the scores stored in the children of node
StoredScores(node) == {node.children[i].score : i \in 1 .. Len(node.children)}

\* C27: for every node of the tree that has children and every remaining
\* depth above 0, minimax returns the largest of the children's stored scores
\* as the maximising player and the smallest of them as the minimising player
C27_MinimaxOverStoredScores ==
  Searchable(game) =>
    \A node \in InternalNodes(TreeOf(game)) : \A depth \in 1 .. 3 :
      /\ minimax(node, depth, TRUE) \in StoredScores(node)
      /\ \A v \in StoredScores(node) : v <= minimax(node, depth, TRUE)
      /\ minimax(node, depth, FALSE) \in StoredScores(node)
      /\ \A v \in StoredScores(node) : minimax(node, depth, FALSE) <= v

(***************************************************************************)
(* The health-aware and the mobility-aware heuristics.                     *)
(***************************************************************************)
\* the units of player p in g weighted by type as e2 weights them
PieceCount(g, p) ==
  LET weight(type) == IF type = "AI" THEN 8000
                      ELSE IF type = "Virus" THEN 4
                      ELSE IF type = "Firewall" THEN 2
                      ELSE 3
      units == player_units(g, p)
      W[i \in 0 .. Len(units)] ==
        IF i = 0 THEN 0 ELSE W[i - 1] + weight(get(g, units[i]).type)
  IN  W[Len(units)]

\* the sum of the healths of the units of player p in g
HealthSum(g, p) == sum_health(g, player_units(g, p), 1)

\* C28: e2 from the perspective of player p is the piece-count term plus the
\* health-sum margin, the healths of p's units minus the healths of the
\* opponent's units, so that an opponent unit with one health point less,
\* still on the board, gives p a strictly larger e2
C28_HealthMargin ==
  \A p \in {Attacker, Defender} :
    LET q == Player_next(p)
    IN  /\ e2(game, p) = (PieceCount(game, p) - PieceCount(game, q))
                           + (HealthSum(game, p) - HealthSum(game, q))
        /\ \A c \in Cells :
             (/\ game.board[c] # None
              /\ game.board[c].player = q
              /\ game.board[c].health > 1)
               => e2([game EXCEPT !.board[c].health = @ - 1], p) > e2(game, p)

\* the number of units of each side and type, the same in two games
SameUnitCounts(g1, g2) ==
  \A p \in {Attacker, Defender} :
    \A type \in {"AI", "Tech", "Virus", "Program", "Firewall"} :
      count_units(g1, p, type) = count_units(g2, p, type)

\* the candidate moves player p would have in g if it were to move
Mobility(g, p) == Len(move_candidates([g EXCEPT !.next_player = p]))

\* the state a candidate move of game leads to, as the tree builder sees it
AfterCandidates ==
  {next_turn(computer_perform_move(game, move_candidates(game)[i]).game) :
     i \in 1 .. Len(move_candidates(game))}

\* the units of player p in g weighted by type as e1 weights them
WeightedUnits(g, p) ==
  LET weight(type) == IF type = "AI" THEN 99999
                      ELSE IF type \in {"Virus", "Tech"} THEN 500
                      ELSE 100
      units == player_units(g, p)
      W[i \in 0 .. Len(units)] ==
        IF i = 0 THEN 0 ELSE W[i - 1] + weight(get(g, units[i]).type)
  IN  W[Len(units)]

\* C29: e1 as the tree builder calls it, on the candidate moves of the state,
\* rewards mobility and the unit-count margin: of two states with the same
\* unit counts per side and type the one in which p has more moves relative
\* to the opponent scores strictly higher for p; and what e1 adds to the
\* weighted units is the mobility bonus plus the number of p's units minus
\* the number of the opponent's, so that two states of equal relative
\* mobility differ in it by their unit-count margins
C29_MobilityBonus ==
  \A p \in {Attacker, Defender} :
    LET q == Player_next(p)
        rel(g) == Mobility(g, p) - Mobility(g, q)
        score(g) == e1(g, p, move_candidates(g))
        margin(g) == Len(player_units(g, p)) - Len(player_units(g, q))
        bonus(g) == score(g) - (WeightedUnits(g, p) - WeightedUnits(g, q)) - margin(g)
    IN  \A g1, g2 \in AfterCandidates \cup {game} :
          /\ (SameUnitCounts(g1, g2) /\ rel(g1) > rel(g2)) => score(g1) > score(g2)
          /\ rel(g1) = rel(g2) => bonus(g1) = bonus(g2)

(***************************************************************************)
(* Parsing.                                                                *)
(***************************************************************************)
\* the letters A-Z of either case, and the hex digits 0-9a-f of either case
IsLetter(c) == c \in Range(UpperCase) \cup Range(LowerCase)

IsHexDigit(c) == c \in Range(HexDigits) \cup {"A", "B", "C", "D", "E", "F"}

\* C22: Coord.from_string returns None for every label of two characters
\* whose first is not a letter A-Z of either case or whose second is not a
\* hex digit 0-9a-f of either case, such as "ZZ"; and
\* CoordPair.from_string("A0 B1") has src (0,0) and dst (1,1)
C22_FromStringRejects ==
  /\ (/\ Len(input) = 2
      /\ ~IsLetter(input[1]) \/ ~IsHexDigit(input[2]))
       => Coord_from_string(input) = NoneCoord
  /\ input = << "A", "0", " ", "B", "1" >>
       => CoordPair_from_string(input) = Move(0, 0, 1, 1)

(***************************************************************************)
(* The broker.                                                             *)
(***************************************************************************)
\* the response r is successful and carries a move tagged for the turn
\* after the turn of g
Accepted(g, r) ==
  /\ ~r.raised
  /\ r.status_code = 200
  /\ r.success
  /\ r.data # NoData
  /\ r.data.turn = g.turns_played + 1

\* C21: in broker mode a pass of the polling loop changes the game only when
\* the response is successful and its turn tag is turns_played + 1; on a
\* response with another turn tag, null data, success false or a transport
\* error there is no move, nothing of the game changes and the loop goes on
C21_BrokerMoveAccepted ==
  [][input' \in BrokerResponses =>
       /\ game' # game => Accepted(game, input')
       /\ ~Accepted(game, input') =>
            /\ get_move_from_broker(game, input') = NonePair
            /\ game' = game
            /\ last' = last
            /\ process' = "running"]_vars

\* a move of the broker has been applied and the response received next is
\* that move again, successful but with the tag of the turn gone by
C21_Witness ==
  /\ game.turns_played = 2
  /\ last.success
  /\ last.move = Move(3, 4, 0, 1)
  /\ input \in BrokerResponses
  /\ ~input.raised /\ input.status_code = 200 /\ input.success
  /\ input.data.turn = 2
  /\ input.data.from = <<1, 1>> /\ input.data.to = <<1, 1>>
  /\ perform_move(game, Move(1, 1, 1, 1)).success

(***************************************************************************)
(* The units on the board.                                                 *)
(***************************************************************************)
\* the cells of g that hold a unit
Occupied(g) == {c \in Cells : g.board[c] # None}

\* the cells whose unit the accepted move mv brings to health 0: the units of
\* an attack that lose all their health, the unit that destroys itself and
\* the units around it with a health of 2 or less
Dying(g, mv) ==
  IF mv.dst = mv.src
  THEN {mv.src} \cup {c \in Ring(mv.src) : g.board[c] # None /\ g.board[c].health <= 2}
  ELSE IF IsAttack(g, mv)
  THEN {c \in {mv.src, mv.dst} :
          LET other == IF c = mv.src THEN mv.dst ELSE mv.src
          IN  g.board[c].health
                <= damage_table[UnitType[g.board[other].type] + 1]
                               [UnitType[g.board[c].type] + 1]}
  ELSE {}

\* C31: a unit leaves the board only by dying: after an accepted move the
\* board holds the units it held before less those the move brought to
\* health 0; a relocation enters an empty cell, and a repair or a relocation
\* leaves the number of units on the board as it was
C31_UnitsLeaveByDying ==
  \A mv \in BoardMoves :
    LET r == perform_move(game, mv)
        relocation == mv.dst # mv.src /\ ~IsAttack(game, mv) /\ ~IsRepair(game, mv)
    IN  r.success =>
          /\ Cardinality(Occupied(r.game))
               = Cardinality(Occupied(game)) - Cardinality(Dying(game, mv))
          /\ relocation => game.board[mv.dst] = None
          /\ (relocation \/ IsRepair(game, mv)) =>
               Cardinality(Occupied(r.game)) = Cardinality(Occupied(game))

(***************************************************************************)
(* The turns.                                                              *)
(***************************************************************************)
\* C32: in a game driven by the main loop every step either applies a move,
\* turns_played growing by exactly 1 and next_player switching, or applies
\* none and leaves the board, turns_played and next_player as they were; so
\* next_player is the Attacker exactly when turns_played is odd, and
\* turns_played never exceeds max_turns
C32_TurnsAlternate ==
  /\ [](/\ game.next_player = Attacker <=> game.turns_played % 2 = 1
        /\ game.turns_played <= game.options.max_turns)
  /\ [][\/ /\ last'.success
            /\ game'.board # game.board
            /\ game'.turns_played = game.turns_played + 1
            /\ game'.next_player = Player_next(game.next_player)
         \/ /\ game'.board = game.board
            /\ game'.turns_played = game.turns_played
            /\ game'.next_player = game.next_player]_vars

\* the turn cap has been reached through moves of the human Attacker and of
\* the computer: three moves have been applied and the Defender is to move
C32_Witness ==
  /\ game.turns_played = game.options.max_turns
  /\ game.turns_played = SearchMaxTurns
  /\ last.success
  /\ game.next_player = Defender
  /\ game.board # initial_board

(***************************************************************************)
(* The piece-count heuristic.                                              *)
(***************************************************************************)
\* 3 for every unit of player p in g that is not an AI and 9999 for every AI
Material(g, p) ==
  3 * Cardinality({c \in Cells : /\ g.board[c] # None
                                  /\ g.board[c].player = p
                                  /\ g.board[c].type # "AI"})
  + 9999 * count_units(g, p, "AI")

\* C33: in every state reached from the initial layout e0 from the
\* perspective of p is 3 per non-AI unit and 9999 per AI of p less the same
\* quantity for the opponent: every Tech is the Defender's and every Virus
\* the Attacker's, so that counting them whoever owns them miscounts nothing
C33_E0CountsPieces ==
  /\ count_units(game, Attacker, "Tech") = 0
  /\ count_units(game, Defender, "Virus") = 0
  /\ \A p \in {Attacker, Defender} :
       e0(game, p) = Material(game, p) - Material(game, Player_next(p))

\* the Defender has lost a Tech and the Attacker a Virus and its Firewall:
\* the sides differ in units and both have their AI
C33_Witness ==
  /\ count_units(game, Defender, "Tech") = 1
  /\ count_units(game, Attacker, "Virus") = 1
  /\ count_units(game, Attacker, "Firewall") = 0
  /\ AIOnBoard(game, Attacker) /\ AIOnBoard(game, Defender)
  /\ e0(game, Defender) = 3
  /\ e0(game, Attacker) = -3

(***************************************************************************)
(* The move of the computer.                                               *)
(***************************************************************************)
\* C34: when the game has no winner, max_depth is 2 or more and next_player
\* has a unit, suggest_move returns a move, the move is one of the candidate
\* moves of the game, perform_move accepts it, and computer_turn advances the
\* turn by exactly one
C34_SuggestedMoveApplies ==
  (/\ has_winner(game) = NoWinner
   /\ game.options.max_depth >= 2
   /\ player_units(game, game.next_player) # << >>)
    => LET s == suggest_move(game)
       IN  /\ s.error = ""
           /\ s.moves # {}
           /\ \A mv \in s.moves :
                /\ mv \in Range(move_candidates(game))
                /\ perform_move(s.game, mv).success
                /\ computer_turn(s.game, mv).game.turns_played
                     = game.turns_played + 1
                /\ computer_turn(s.game, mv).game.next_player
                     = Player_next(game.next_player)

(***************************************************************************)
(* The end of the game.                                                    *)
(***************************************************************************)
\* C35: every game ends: the moves applied are at most max_turns - 1, after
\* which has_winner is not None and the main loop stops; no move is applied
\* once has_winner is not None; and once an AI has been destroyed the main
\* loop applies no further move
C35_GameEnds ==
  /\ [](/\ game.turns_played - 1 <= game.options.max_turns - 1
        /\ game.turns_played - 1 = game.options.max_turns - 1
             => has_winner(game) # NoWinner)
  /\ [][has_winner(game) # NoWinner => game' = game]_vars
  /\ [][(~AIOnBoard(game, Attacker) \/ ~AIOnBoard(game, Defender))
          => game' = game]_vars
====
